---- MODULE Spec2Model ----
(***************************************************************************)
(* lint_configs/__init__.py: the module state built at import               *)
(* (__version__, _PACKAGE_DIR, __all__, the module globals) and the two     *)
(* accessors get_python_config_path() and get_ruff_config_path().           *)
(*                                                                          *)
(* A path string is a sequence of lexemes: the separator "/" or a maximal   *)
(* run of non-separator characters ("opt", ".", "__init__.py").  A Path is  *)
(* what pathlib keeps of a string on POSIX: its root ("", "/" or "//") and  *)
(* the names after it.                                                      *)
(***************************************************************************)
EXTENDS Naturals, Sequences, FiniteSets

VARIABLES
    __file__,       \* where the import system found the module
    world,          \* the process environment and the files that exist
    __version__,    \* module global
    _PACKAGE_DIR,   \* module global
    __all__,        \* module global
    globals,        \* names bound in the module after import, with their kind
    pc,             \* per caller: "idle" or the accessor it is executing
    acc,            \* per caller: the value on its operand stack
    todo,           \* per caller: the path segments still to be joined
    calls,          \* per accessor: calls that returned (counted up to MaxCalls)
    first,          \* per accessor: outcome of its first call
    last,           \* per accessor: outcome of its latest call
    overlapped,     \* per accessor: latest call returned while another caller was mid-call
    runs            \* separate processes importing the same installation

vars == <<__file__, world, __version__, _PACKAGE_DIR, __all__, globals,
          pc, acc, todo, calls, first, last, overlapped, runs>>

----------------------------------------------------------------------------
(* Bounds *)

MaxPrefixLen == 3
NumCallers == 2
MaxCalls == 2

----------------------------------------------------------------------------
(* pathlib on POSIX *)

Sep == "/"

RECURSIVE LeadingSeps(_)
LeadingSeps(s) ==
    IF s = <<>> \/ Head(s) # Sep THEN 0 ELSE 1 + LeadingSeps(Tail(s))

\* _PosixFlavour.splitroot: exactly two leading separators are kept as "//",
\* any other number of them is the root "/".
SplitRoot(s) ==
    IF LeadingSeps(s) = 0 THEN ""
    ELSE IF LeadingSeps(s) = 2 THEN "//"
    ELSE "/"

IsName(x) == x # Sep /\ x # "."

\* Path(s): empty components and "." components are dropped, ".." is kept.
ParsePath(s) == [root |-> SplitRoot(s), names |-> SelectSeq(s, IsName)]

\* Path.parent: a path with no name left (a bare root, or ".") is its own parent.
Parent(p) ==
    IF p.names = <<>> THEN p
    ELSE [p EXCEPT !.names = SubSeq(p.names, 1, Len(p.names) - 1)]

\* p / key: an anchored key replaces p, any other key is appended to it.
TrueDiv(p, key) ==
    LET k == ParsePath(key)
    IN  IF k.root # "" THEN k
        ELSE [root |-> p.root, names |-> p.names \o k.names]

IsAbsolute(p) == p.root # ""

RECURSIVE JoinNames(_)
JoinNames(ns) ==
    IF ns = <<>> THEN <<>>
    ELSE IF Len(ns) = 1 THEN <<Head(ns)>>
    ELSE <<Head(ns), Sep>> \o JoinNames(Tail(ns))

RootLexemes(r) ==
    IF r = "" THEN <<>> ELSE IF r = "/" THEN <<Sep>> ELSE <<Sep, Sep>>

\* str(p)
Str(p) ==
    IF p.root = "" /\ p.names = <<>> THEN <<".">>
    ELSE RootLexemes(p.root) \o JoinNames(p.names)

----------------------------------------------------------------------------
(* The module *)

Accessors == {"get_python_config_path", "get_ruff_config_path"}

VersionLiteral_Short == "1.0"

VersionLiteral == "1.0.0"

PackageDir(f) == Parent(ParsePath(f))

\* The two segments in the wrong order.
PythonConfigSegments_Swapped == << <<"pyproject-linters.toml">>, <<"python">> >>

PythonConfigSegments == << <<"python">>, <<"pyproject-linters.toml">> >>

\* The segment written with a leading separator.
RuffConfigSegments_Anchored == << <<Sep, "ruff.toml">> >>

RuffConfigSegments == << <<"ruff.toml">> >>

Segments(fn) ==
    IF fn = "get_python_config_path" THEN PythonConfigSegments
    ELSE RuffConfigSegments

\* The export list without the Ruff accessor.
ExportList_NoRuff == <<"get_python_config_path", "__version__">>

ExportList == <<"get_python_config_path", "get_ruff_config_path", "__version__">>

ModuleGlobals ==
    { [name |-> "Path", kind |-> "class"],
      [name |-> "__version__", kind |-> "str"],
      [name |-> "_PACKAGE_DIR", kind |-> "Path"],
      [name |-> "get_python_config_path", kind |-> "function"],
      [name |-> "get_ruff_config_path", kind |-> "function"],
      [name |-> "__all__", kind |-> "list"] }


\* return _PACKAGE_DIR / "python" / "pyproject-linters.toml"
get_python_config_path(package_dir) ==
    TrueDiv(TrueDiv(package_dir, PythonConfigSegments[1]), PythonConfigSegments[2])

\* return _PACKAGE_DIR / "ruff.toml"
get_ruff_config_path(package_dir) ==
    TrueDiv(package_dir, RuffConfigSegments[1])

----------------------------------------------------------------------------
(* Inputs: where the module file is, and the world the process runs in *)

Callers == 1..NumCallers

Runs == {"run1", "run2"}

PrefixLexemes == {Sep, ".", "lint_configs"}

\* Two names are never adjacent: a lexeme is a maximal run of characters.
WellFormed(s) ==
    \A i \in 1..(Len(s) - 1) : s[i] = Sep \/ s[i + 1] = Sep

Prefixes ==
    {<<>>} \cup
    { s \in UNION { [1..n -> PrefixLexemes] : n \in 1..MaxPrefixLen } :
        WellFormed(s) /\ s[Len(s)] = Sep }

\* The installation of the documented scenario.
ExampleFile == <<Sep, "opt", Sep, "lib", Sep, "lint_configs", Sep, "__init__.py">>

FileLocations == { p \o <<"__init__.py">> : p \in Prefixes } \cup {ExampleFile}

BundledFiles == {"python/pyproject-linters.toml", "ruff.toml"}

Target(fn) ==
    IF fn = "get_python_config_path" THEN "python/pyproject-linters.toml"
    ELSE "ruff.toml"

\* One environment variable, unset (<<>>) or naming some other file.
EnvValues == { <<>>, <<Sep, "etc", Sep, "ruff.toml">> }

Worlds == [env : EnvValues, fs : SUBSET BundledFiles]

NoPath == [root |-> "", names |-> <<>>]

NoOutcome == [kind |-> "none", path |-> NoPath]

Returned(p) == [kind |-> "return", path |-> p]

Raised == [kind |-> "raise", path |-> NoPath]

Min(a, b) == IF a < b THEN a ELSE b

----------------------------------------------------------------------------
(* Import: the module body has run *)

InitProcess ==
    /\ __file__ \in FileLocations
    /\ world \in Worlds
    /\ __version__ = VersionLiteral
    /\ _PACKAGE_DIR = PackageDir(__file__)
    /\ __all__ = ExportList
    /\ globals = ModuleGlobals
    /\ pc = [t \in Callers |-> "idle"]
    /\ acc = [t \in Callers |-> NoPath]
    /\ todo = [t \in Callers |-> <<>>]
    /\ calls = [fn \in Accessors |-> 0]
    /\ first = [fn \in Accessors |-> NoOutcome]
    /\ last = [fn \in Accessors |-> NoOutcome]
    /\ overlapped = [fn \in Accessors |-> FALSE]

Init ==
    /\ InitProcess
    /\ runs = << >>

module == <<__file__, world, __version__, _PACKAGE_DIR, __all__, globals>>

history == <<calls, first, last, overlapped>>

----------------------------------------------------------------------------
(* One process, several callers: each accessor call is a frame that loads   *)
(* the global _PACKAGE_DIR, applies "/" once per segment, and returns.      *)

\* The directory is recomputed on entry, without .parent, and rebound.
Call_LazyInit(t, fn) ==
    /\ pc[t] = "idle"
    /\ pc' = [pc EXCEPT ![t] = fn]
    /\ _PACKAGE_DIR' = ParsePath(__file__)
    /\ acc' = [acc EXCEPT ![t] = ParsePath(__file__)]
    /\ todo' = [todo EXCEPT ![t] = Segments(fn)]
    /\ UNCHANGED <<__file__, world, __version__, __all__, globals, history, runs>>

\* A caller enters accessor fn: LOAD_GLOBAL _PACKAGE_DIR.
Call(t, fn) ==
    /\ pc[t] = "idle"
    /\ pc' = [pc EXCEPT ![t] = fn]
    /\ acc' = [acc EXCEPT ![t] = _PACKAGE_DIR]
    /\ todo' = [todo EXCEPT ![t] = Segments(fn)]
    /\ UNCHANGED <<module, history, runs>>

\* The join is done in place on the global (_PACKAGE_DIR /= segment).
BinaryOp_InPlace(t) ==
    /\ pc[t] # "idle"
    /\ todo[t] # <<>>
    /\ _PACKAGE_DIR' = TrueDiv(_PACKAGE_DIR, Head(todo[t]))
    /\ acc' = [acc EXCEPT ![t] = TrueDiv(_PACKAGE_DIR, Head(todo[t]))]
    /\ todo' = [todo EXCEPT ![t] = Tail(todo[t])]
    /\ UNCHANGED <<__file__, world, __version__, __all__, globals, pc, history, runs>>

\* The intermediate path is kept in one slot shared by all callers in a call.
BinaryOp_SharedSlot(t) ==
    /\ pc[t] # "idle"
    /\ todo[t] # <<>>
    /\ acc' = [u \in Callers |->
                 IF pc[u] # "idle" THEN TrueDiv(acc[t], Head(todo[t])) ELSE acc[u]]
    /\ todo' = [todo EXCEPT ![t] = Tail(todo[t])]
    /\ UNCHANGED <<module, pc, history, runs>>

\* LOAD_CONST segment; BINARY_OP /
BinaryOp(t) ==
    /\ pc[t] # "idle"
    /\ todo[t] # <<>>
    /\ acc' = [acc EXCEPT ![t] = TrueDiv(acc[t], Head(todo[t]))]
    /\ todo' = [todo EXCEPT ![t] = Tail(todo[t])]
    /\ UNCHANGED <<module, pc, history, runs>>

\* The accessor raises when the file it names does not exist.
Return_CheckExists(t) ==
    /\ pc[t] # "idle"
    /\ todo[t] = <<>>
    /\ LET fn == pc[t]
           out == IF Target(fn) \in world.fs THEN Returned(acc[t]) ELSE Raised
       IN  /\ last' = [last EXCEPT ![fn] = out]
           /\ first' = [first EXCEPT ![fn] = IF calls[fn] = 0 THEN out ELSE @]
           /\ calls' = [calls EXCEPT ![fn] = Min(@ + 1, MaxCalls)]
           /\ overlapped' = [overlapped EXCEPT
                               ![fn] = \E u \in Callers \ {t} : pc[u] # "idle"]
    /\ pc' = [pc EXCEPT ![t] = "idle"]
    /\ acc' = [acc EXCEPT ![t] = NoPath]
    /\ UNCHANGED <<module, todo, runs>>

\* RETURN_VALUE
Return(t) ==
    /\ pc[t] # "idle"
    /\ todo[t] = <<>>
    /\ LET fn == pc[t]
           out == Returned(acc[t])
       IN  /\ last' = [last EXCEPT ![fn] = out]
           /\ first' = [first EXCEPT ![fn] = IF calls[fn] = 0 THEN out ELSE @]
           /\ calls' = [calls EXCEPT ![fn] = Min(@ + 1, MaxCalls)]
           /\ overlapped' = [overlapped EXCEPT
                               ![fn] = \E u \in Callers \ {t} : pc[u] # "idle"]
    /\ pc' = [pc EXCEPT ![t] = "idle"]
    /\ acc' = [acc EXCEPT ![t] = NoPath]
    /\ UNCHANGED <<module, todo, runs>>

Next ==
    \/ \E t \in Callers, fn \in Accessors : Call(t, fn)
    \/ \E t \in Callers : BinaryOp(t)
    \/ \E t \in Callers : Return(t)

Spec == Init /\ [][Next]_vars

----------------------------------------------------------------------------
(* Two processes importing the same installation, each in its own world;    *)
(* a call is taken as a whole.                                              *)

Accessor(fn, package_dir) ==
    IF fn = "get_python_config_path" THEN get_python_config_path(package_dir)
    ELSE get_ruff_config_path(package_dir)

FreshRun(w) ==
    [world |-> w,
     _PACKAGE_DIR |-> PackageDir(__file__),
     result |-> [fn \in Accessors |-> NoOutcome]]

InitRuns ==
    /\ InitProcess
    /\ runs \in [Runs -> { FreshRun(w) : w \in Worlds }]

\* The Ruff accessor honours an override taken from the environment.
RunCall_EnvOverride(r, fn) ==
    /\ runs' = [runs EXCEPT
                  ![r].result[fn] =
                      IF fn = "get_ruff_config_path" /\ runs[r].world.env # <<>>
                      THEN Returned(ParsePath(runs[r].world.env))
                      ELSE Returned(Accessor(fn, runs[r]._PACKAGE_DIR))]
    /\ UNCHANGED <<module, pc, acc, todo, history>>

\* One whole accessor call in process r.
RunCall(r, fn) ==
    /\ runs' = [runs EXCEPT
                  ![r].result[fn] = Returned(Accessor(fn, runs[r]._PACKAGE_DIR))]
    /\ UNCHANGED <<module, pc, acc, todo, history>>

NextRuns == \E r \in Runs, fn \in Accessors : RunCall(r, fn)

SpecRuns == InitRuns /\ [][NextRuns]_vars

----------------------------------------------------------------------------
(* Properties *)

PY == "get_python_config_path"

RUFF == "get_ruff_config_path"

\* The path without its last n names.
DropLast(p, n) == [p EXCEPT !.names = SubSeq(p.names, 1, Len(p.names) - n)]

\* The last n names of the path.
LastNames(p, n) == SubSeq(p.names, Len(p.names) - n + 1, Len(p.names))

\* C1: every call of get_python_config_path() returns a path whose last two
\* segments are python/pyproject-linters.toml and whose remaining prefix is
\* the package directory; installed at /opt/lib/lint_configs it prints as
\* /opt/lib/lint_configs/python/pyproject-linters.toml.
C1_PythonPathUnderPackageDir ==
    calls[PY] > 0 =>
        /\ last[PY].kind = "return"
        /\ Len(last[PY].path.names) >= 2
        /\ LastNames(last[PY].path, 2) = <<"python", "pyproject-linters.toml">>
        /\ DropLast(last[PY].path, 2) = _PACKAGE_DIR
        /\ __file__ = ExampleFile =>
             /\ Str(_PACKAGE_DIR) = <<Sep, "opt", Sep, "lib", Sep, "lint_configs">>
             /\ Str(last[PY].path) =
                  <<Sep, "opt", Sep, "lib", Sep, "lint_configs", Sep, "python",
                    Sep, "pyproject-linters.toml">>

C1_Witness ==
    /\ calls[PY] > 0
    /\ __file__ = ExampleFile
    /\ last[PY].kind = "return"

\* C2: every call of get_ruff_config_path() returns a path whose last segment
\* is ruff.toml and whose remaining prefix is the package directory; installed
\* at /opt/lib/lint_configs it prints as /opt/lib/lint_configs/ruff.toml.
C2_RuffPathUnderPackageDir ==
    calls[RUFF] > 0 =>
        /\ last[RUFF].kind = "return"
        /\ Len(last[RUFF].path.names) >= 1
        /\ LastNames(last[RUFF].path, 1) = <<"ruff.toml">>
        /\ DropLast(last[RUFF].path, 1) = _PACKAGE_DIR
        /\ __file__ = ExampleFile =>
             Str(last[RUFF].path) =
                 <<Sep, "opt", Sep, "lib", Sep, "lint_configs", Sep, "ruff.toml">>

C2_Witness ==
    /\ calls[RUFF] > 0
    /\ __file__ = ExampleFile
    /\ last[RUFF].kind = "return"

\* C3: the package directory is absolute and every path an accessor returns
\* is absolute, wherever the module file was found.
C3_PathsAreAbsolute ==
    /\ IsAbsolute(_PACKAGE_DIR)
    /\ \A fn \in Accessors :
         last[fn].kind = "return" => IsAbsolute(last[fn].path)

\* C4: every call of an accessor returns what the first call of that accessor
\* returned, however many calls of either accessor came before.
C4_SameAsFirstCall ==
    \A fn \in Accessors :
        calls[fn] > 0 => /\ first[fn].kind = "return"
                         /\ last[fn] = first[fn]

C4_Witness ==
    \E fn \in Accessors :
        /\ calls[fn] >= 2
        /\ calls[CHOOSE g \in Accessors : g # fn] >= 1
        /\ last[fn].kind = "return"

\* C5: no call ends in an error and no call gets stuck: a caller inside an
\* accessor can always take its next step, and every call that ended returned
\* a path, also when the file it names does not exist.
C5_NeverRaises ==
    /\ \A t \in Callers :
         pc[t] # "idle" => ENABLED (BinaryOp(t) \/ Return(t))
    /\ \A fn \in Accessors :
         /\ last[fn].kind # "raise"
         /\ first[fn].kind # "raise"
         /\ calls[fn] > 0 => last[fn].kind = "return"

C5_Witness ==
    /\ world.fs = {}
    /\ \A fn \in Accessors : calls[fn] > 0 /\ last[fn].kind = "return"

\* The names __all__ exports, and the functions the module body defined.
Exported == { __all__[i] : i \in DOMAIN __all__ }

DefinedFunctions == { g.name : g \in { h \in globals : h.kind = "function" } }

\* C6: __all__ holds exactly the functions defined in the module plus
\* __version__: every exported name is bound in the module (no dangling
\* export) and both accessors are exported.
C6_ExportsAreTheDefinedFunctions ==
    /\ Exported = DefinedFunctions \cup {"__version__"}
    /\ Exported \subseteq { g.name : g \in globals }
    /\ Accessors \subseteq Exported

C6_Witness ==
    /\ Len(__all__) > 0
    /\ DefinedFunctions # {}
    /\ \A fn \in Accessors : fn \in Exported /\ calls[fn] > 0

\* C7: __version__ is "1.0.0" after import and after any sequence of calls.
C7_VersionIsLiteral == __version__ = "1.0.0"

C7_Witness ==
    /\ __version__ = "1.0.0"
    /\ \A fn \in Accessors : calls[fn] = MaxCalls

\* C8: _PACKAGE_DIR is what import computed from __file__, and no step of any
\* call changes it or any other module global.
C8_ModuleStateIsFrozen ==
    /\ _PACKAGE_DIR = PackageDir(__file__)
    /\ [][ /\ _PACKAGE_DIR' = _PACKAGE_DIR
           /\ __version__' = __version__
           /\ __all__' = __all__
           /\ globals' = globals
           /\ __file__' = __file__ ]_vars

C8_Witness ==
    /\ _PACKAGE_DIR = PackageDir(__file__)
    /\ calls[PY] > 0
    /\ calls[RUFF] > 0
    /\ \E t \in Callers : pc[t] # "idle"

\* C9: two processes that import the same installation return equal paths
\* from the same accessor, whatever their environment variables and whichever
\* of the bundled files exist.
C9_ResultIndependentOfWorld ==
    \A r1 \in DOMAIN runs, r2 \in DOMAIN runs, fn \in Accessors :
        ( /\ runs[r1]._PACKAGE_DIR = runs[r2]._PACKAGE_DIR
          /\ runs[r1].result[fn].kind # "none"
          /\ runs[r2].result[fn].kind # "none" )
        => runs[r1].result[fn] = runs[r2].result[fn]

C9_Witness ==
    \E r1 \in DOMAIN runs, r2 \in DOMAIN runs :
        /\ runs[r1].world.env # runs[r2].world.env
        /\ runs[r1].world.fs = BundledFiles
        /\ runs[r2].world.fs = {}
        /\ runs[r1]._PACKAGE_DIR = runs[r2]._PACKAGE_DIR
        /\ \A fn \in Accessors :
             /\ runs[r1].result[fn].kind = "return"
             /\ runs[r2].result[fn].kind = "return"

\* C10: under every interleaving of the callers' steps each call returns the
\* path the accessor returns when it runs alone on the imported package
\* directory, and the package directory stays what import computed.
C10_InterleavingReturnsSequentialResult ==
    /\ _PACKAGE_DIR = PackageDir(__file__)
    /\ \A fn \in Accessors :
         calls[fn] > 0 => last[fn] = Returned(Accessor(fn, PackageDir(__file__)))

C10_Witness ==
    /\ overlapped[PY]
    /\ overlapped[RUFF]
    /\ \E t \in Callers : pc[t] # "idle" /\ todo[t] # Segments(pc[t])

====
